---- MODULE Spec2Model ----
(***************************************************************************)
(* A model of the Kindle screenshot OCR scripts: img2txt.py (recognition   *)
(* phase and merge), kindle_ocr.py (the older one-script pipeline) and the *)
(* identifier derivation of txt2md.py / kindle_ocr.py.                     *)
(*                                                                         *)
(* Text is modelled as Python models it: a string is a sequence of code    *)
(* points, a file name is a string, and the batch directory is a function  *)
(* from the names of the files present to their contents.                  *)
(***************************************************************************)
EXTENDS Integers, Sequences, FiniteSets, TLC

\* ------------------------------------------------------------------ bounds
\* the largest number of source items put into the batch directory
MaxItems == 2
\* the longest generation-service answer enumerated exhaustively
MaxNameLen == 3

\* ----------------------------------------------------------- strings
\* code points of the characters the model writes out
Ch == [nl |-> 10, sp |-> 32, hyphen |-> 45, dot |-> 46, zero |-> 48,
       nine |-> 57, qmark |-> 63, A |-> 65, Z |-> 90, underscore |-> 95,
       a |-> 97, b |-> 98, n |-> 110, z |-> 122]

\* str.isspace() on the ASCII range: what str.strip() removes
WhiteSpace == {9, 10, 11, 12, 13, 28, 29, 30, 31, 32}

\* the \d of the file-name patterns
IsDigit(c) == c \in Ch.zero..Ch.nine

\* str.isalnum() on the ASCII range
IsAlnum(c) == IsDigit(c) \/ c \in Ch.A..Ch.Z \/ c \in Ch.a..Ch.z

\* s[i:j] with Python's 0-based half-open bounds, clipped to the string
Slice(s, i, j) == SubSeq(s, i + 1, IF j < Len(s) THEN j ELSE Len(s))

StartsWith(s, p) == Len(p) <= Len(s) /\ SubSeq(s, 1, Len(p)) = p

EndsWith(s, p) == Len(p) <= Len(s) /\ SubSeq(s, Len(s) - Len(p) + 1, Len(s)) = p

RECURSIVE LStrip(_)
LStrip(s) == IF s # <<>> /\ Head(s) \in WhiteSpace THEN LStrip(Tail(s)) ELSE s

RECURSIVE RStrip(_)
RStrip(s) ==
    IF s # <<>> /\ s[Len(s)] \in WhiteSpace THEN RStrip(SubSeq(s, 1, Len(s) - 1)) ELSE s

\* str.strip()
Strip(s) == RStrip(LStrip(s))

\* str.split(sep) for a one-character separator: always at least one field
RECURSIVE Split(_, _)
Split(s, sep) ==
    LET cut == {i \in 1..Len(s) : s[i] = sep} IN
    IF cut = {} THEN <<s>>
    ELSE LET i == CHOOSE k \in cut : \A m \in cut : k <= m IN
         <<SubSeq(s, 1, i - 1)>> \o Split(SubSeq(s, i + 1, Len(s)), sep)

\* str.replace(old, new): every non-overlapping occurrence, left to right
RECURSIVE Replace(_, _, _)
Replace(s, old, new) ==
    IF s = <<>> THEN <<>>
    ELSE IF StartsWith(s, old) THEN new \o Replace(SubSeq(s, Len(old) + 1, Len(s)), old, new)
    ELSE <<Head(s)>> \o Replace(Tail(s), old, new)

\* int() of a string of decimal digits
RECURSIVE ParseInt(_)
ParseInt(ds) ==
    IF ds = <<>> THEN 0
    ELSE 10 * ParseInt(SubSeq(ds, 1, Len(ds) - 1)) + (ds[Len(ds)] - Ch.zero)

\* Python's < on str: by code point, a proper prefix first
RECURSIVE StrLess(_, _)
StrLess(s, t) ==
    IF t = <<>> THEN FALSE
    ELSE IF s = <<>> THEN TRUE
    ELSE IF Head(s) # Head(t) THEN Head(s) < Head(t)
    ELSE StrLess(Tail(s), Tail(t))

\* the sequences over S of length at most n
SeqUpTo(S, n) == UNION {[1..k -> S] : k \in 0..n}

\* c repeated n times
Rep(c, n) == [i \in 1..n |-> c]

\* the string literals of the scripts
Lit == [screenshot_ |-> <<115, 99, 114, 101, 101, 110, 115, 104, 111, 116, 95>>,
        png |-> <<46, 112, 110, 103>>,
        ocr_ |-> <<111, 99, 114, 95>>,
        txt |-> <<46, 116, 120, 116>>,
        ocr_output_txt |-> <<111, 99, 114, 95, 111, 117, 116, 112, 117, 116, 46, 116, 120, 116>>,
        md |-> <<46, 109, 100>>,
        pdf |-> <<46, 112, 100, 102>>,
        OCR_Output |-> <<79, 67, 82, 95, 79, 117, 116, 112, 117, 116>>]

\* ------------------------------------------------- identifier derivation
\* the character loop shared by both derivation sites: keep a character that
\* is alphanumeric or one of ' -_', put '_' for any other
SafeChars(filename) ==
    [i \in 1..Len(filename) |->
        IF IsAlnum(filename[i]) \/ filename[i] \in {Ch.sp, Ch.hyphen, Ch.underscore}
        THEN filename[i] ELSE Ch.underscore]

\* generate_filename_from_text without its last fallback: the cleaned name is
\* returned even when nothing is left of it
generate_filename_from_text_NoFallback(g) ==
    IF g.kind = "raise" THEN Lit.OCR_Output
    ELSE IF g.kind = "none" \/ g.text = <<>> THEN Lit.OCR_Output
    ELSE Strip(SafeChars(Strip(g.text)))

\* txt2md.generate_filename_from_text, as a function of what the generation
\* service did: raised, gave no text (None or ''), or gave a string
generate_filename_from_text(g) ==
    IF g.kind = "raise" THEN Lit.OCR_Output
    ELSE IF g.kind = "none" \/ g.text = <<>> THEN Lit.OCR_Output
    ELSE LET filename == Strip(g.text)
             result == Strip(SafeChars(filename))
         IN IF result # <<>> THEN result ELSE Lit.OCR_Output

\* the default of generate_filename's max_length parameter
max_length == 10

\* kindle_ocr.generate_filename
generate_filename(ocr_text, maxlen) ==
    IF Strip(ocr_text) = <<>> THEN Lit.OCR_Output
    ELSE LET fields == Split(ocr_text, Ch.nl)
             lines == SelectSeq([i \in 1..Len(fields) |-> Strip(fields[i])],
                                LAMBDA l : l # <<>>)
         IN IF lines = <<>> THEN Lit.OCR_Output
            ELSE LET filename == Strip(Slice(lines[1], 0, maxlen))
                     result == Replace(SafeChars(filename), <<Ch.sp>>, <<Ch.underscore>>)
                 IN IF result # <<>> THEN result ELSE Lit.OCR_Output

\* ------------------------------------------------------ the batch directory
\* the digit d as a character
Digit(d) == Ch.zero + d

\* the numeric parts of the source items a batch may hold: "0", "1", "2", the
\* zero-padded "02" and the two-digit "10"
Suffixes == {<<Digit(0)>>, <<Digit(1)>>, <<Digit(2)>>,
             <<Digit(0), Digit(2)>>, <<Digit(1), Digit(0)>>}

\* the source item screenshot_<N>.png
Screenshot(n) == Lit.screenshot_ \o n \o Lit.png

\* a file the screenshot glob matches though no number is written in its
\* name: screenshot_a.png
StrayItem == Screenshot(<<Ch.a>>)

\* a file of the user's the result glob matches: ocr_n.txt, holding "n"
StrayRecord == Lit.ocr_ \o <<Ch.n>> \o Lit.txt

\* the batches: at most MaxItems source items, possibly none
Batches == {b \in SUBSET {Screenshot(n) : n \in Suffixes} : Cardinality(b) <= MaxItems}

\* Path.glob('<pre>*<ext>') over the names of a directory
Glob(names, pre, ext) ==
    {n \in names : Len(n) >= Len(pre) + Len(ext) /\ StartsWith(n, pre) /\ EndsWith(n, ext)}

\* the orders in which a directory listing can return a set of names
RECURSIVE Listings(_)
Listings(S) ==
    IF S = {} THEN {<<>>}
    ELSE UNION {{<<x>> \o l : l \in Listings(S \ {x})} : x \in S}

\* the number of digits s starts with
RECURSIVE LeadingDigits(_)
LeadingDigits(s) == IF s # <<>> /\ IsDigit(Head(s)) THEN 1 + LeadingDigits(Tail(s)) ELSE 0

\* re.search(r'<pre>(\d+)<ext>', name): whether it matches, and group(1) of
\* the leftmost match
Search(name, pre, ext) ==
    LET rest(i) == SubSeq(name, i + Len(pre), Len(name))
        hit == {i \in 1..Len(name) :
                   /\ StartsWith(SubSeq(name, i, Len(name)), pre)
                   /\ LeadingDigits(rest(i)) >= 1
                   /\ StartsWith(SubSeq(rest(i), LeadingDigits(rest(i)) + 1, Len(rest(i))), ext)}
    IN IF hit = {} THEN [ok |-> FALSE, group |-> <<>>]
       ELSE LET i == CHOOSE k \in hit : \A m \in hit : k <= m
            IN [ok |-> TRUE, group |-> SubSeq(rest(i), 1, LeadingDigits(rest(i)))]

\* the sort key of merge_ocr_files
extract_number(filename) ==
    LET match == Search(filename, Lit.ocr_, Lit.txt)
    IN IF match.ok THEN ParseInt(match.group) ELSE 0

\* the sort key of img2txt.process_images
extract_screenshot_number(filepath) ==
    LET match == Search(filepath, Lit.screenshot_, Lit.png)
    IN IF match.ok THEN ParseInt(match.group) ELSE 0

\* list.sort(key=...) with the keys already computed: stable, so equal keys
\* keep the listing order
RECURSIVE SortByKey(_, _)
SortByKey(l, key) ==
    IF l = <<>> THEN <<>>
    ELSE LET init == SortByKey(SubSeq(l, 1, Len(l) - 1), key)
             x == l[Len(l)]
             k == Cardinality({i \in 1..Len(init) : key[init[i]] <= key[x]})
         IN SubSeq(init, 1, k) \o <<x>> \o SubSeq(init, k + 1, Len(init))

\* the elements of a list
Range(l) == {l[i] : i \in 1..Len(l)}

\* extract_number computed once for each ocr_*.txt name a batch can hold
OcrKeyOf ==
    [n \in {Lit.ocr_ \o x \o Lit.txt : x \in Suffixes \cup {<<Ch.a>>}}
               \cup {Lit.ocr_output_txt, StrayRecord}
       |-> extract_number(n)]

\* ocr_files.sort(key=extract_number)
SortOcrFiles(l) ==
    SortByKey(l, [n \in Range(l) |->
                    IF n \in DOMAIN OcrKeyOf THEN OcrKeyOf[n] ELSE extract_number(n)])

\* image_files.sort(key=extract_screenshot_number)
SortImageFiles(l) == SortByKey(l, [n \in Range(l) |-> extract_screenshot_number(n)])

\* list.sort() of kindle_ocr: paths of one directory compare as their names do
RECURSIVE SortPaths(_)
SortPaths(l) ==
    IF l = <<>> THEN <<>>
    ELSE LET init == SortPaths(SubSeq(l, 1, Len(l) - 1))
             x == l[Len(l)]
             k == Cardinality({i \in 1..Len(init) : ~StrLess(x, init[i])})
         IN SubSeq(init, 1, k) \o <<x>> \o SubSeq(init, k + 1, Len(init))

\* Path.stem: the name without its last suffix
Stem(name) ==
    LET dots == {i \in 2..Len(name) : name[i] = Ch.dot}
    IN IF dots = {} THEN name
       ELSE SubSeq(name, 1, (CHOOSE i \in dots : \A j \in dots : j <= i) - 1)

\* the per-item result file of a source item: screenshot_1.png -> ocr_1.txt
OcrFilename(image_name) == Replace(Stem(image_name), Lit.screenshot_, Lit.ocr_) \o Lit.txt

\* OcrFilename computed once for each source item a batch can hold
OcrFilenameOf == [n \in {Screenshot(x) : x \in Suffixes} \cup {StrayItem} |-> OcrFilename(n)]

\* open(name, 'w') ... write(content): creates the file or replaces its content
WriteFile(dir, name, content) ==
    [n \in DOMAIN dir \cup {name} |-> IF n = name THEN content ELSE dir[n]]

\* the part of a name between a prefix and an extension
Middle(name, pre, ext) == SubSeq(name, Len(pre) + 1, Len(name) - Len(ext))

\* the text on the page of a source item as a recognition service reads it:
\* "<N> a", or "<N> b" when it reads the page differently
PageText(image_name, reading) ==
    Middle(image_name, Lit.screenshot_, Lit.png) \o <<Ch.sp, reading>>

\* what a generate_content call can do: raise, answer without text, answer
\* with white space only, or answer with the page's text, bare or padded
Responses(image_name) ==
    {[kind |-> "raise", text |-> <<>>], [kind |-> "none", text |-> <<>>],
     [kind |-> "text", text |-> <<Ch.sp>>],
     [kind |-> "text", text |-> PageText(image_name, Ch.a)],
     [kind |-> "text", text |-> <<Ch.sp>> \o PageText(image_name, Ch.b) \o <<Ch.nl>>]}

\* ------------------------------------------------------------------ state
VARIABLES
    prog,       \* the script that runs: "img2txt" or "kindle_ocr"
    args,       \* kindle_ocr's flags: [skip_drive, skip_pdf]
    fs,         \* the batch directory: name of each file present |-> content
    pc,         \* where the script is
    queue,      \* image_files still to be processed in the loop
    calls,      \* the source items handed to the recognition service, in order
    results,    \* what perform_ocr returned for each item of this run
    ret,        \* the text process_images / merge_ocr_files returned last
    exitCode,   \* the exit code of the process, -1 while it runs
    upload,     \* upload_to_google_drive in this run: "no", "ok", "failed"
    pdf,        \* create_pdf in this run: "no", "ok", "failed"
    site,       \* the derivation site last used: "none", "txt2md", "kindle_ocr"
    gen,        \* what that derivation was given
    ident       \* the identifier it returned

vars == <<prog, args, fs, pc, queue, calls, results, ret, exitCode,
          upload, pdf, site, gen, ident>>

pipeVars == <<prog, args, fs, pc, queue, calls, results, ret, exitCode, upload, pdf>>

nameVars == <<site, gen, ident>>

\* the merged artifact's name
OutName == Lit.ocr_output_txt

\* the content of the merged artifact, with whether it exists
FileOut == IF OutName \in DOMAIN fs THEN <<TRUE, fs[OutName]>> ELSE <<FALSE, <<>>>>

\* the source items now in the directory
SourceItems == Glob(DOMAIN fs, Lit.screenshot_, Lit.png)

\* a function with no argument: an empty directory, no result yet
Empty == [n \in {} |-> <<>>]

\* ------------------------------------------------------- img2txt.perform_ocr
\* the text perform_ocr returns for a response of the service
OcrText(resp) ==
    IF resp.kind = "text" /\ resp.text # <<>> THEN Strip(resp.text) ELSE <<>>

\* perform_ocr without the placeholder of its except branch: nothing is
\* written when the recognition call raised
OcrSaveNoPlaceholder(dir, image_name, resp) ==
    IF resp.kind # "raise" /\ OcrText(resp) # <<>>
    THEN WriteFile(dir, OcrFilenameOf[image_name], OcrText(resp))
    ELSE dir

\* the directory after perform_ocr(.., save_individual=True): the text is
\* saved when it is not empty, an empty file is written when the call raised
OcrSave(dir, image_name, resp) ==
    IF resp.kind = "raise" THEN WriteFile(dir, OcrFilenameOf[image_name], <<>>)
    ELSE IF OcrText(resp) # <<>> THEN WriteFile(dir, OcrFilenameOf[image_name], OcrText(resp))
    ELSE dir

\* ------------------------------------------------------- merge_ocr_files
\* what a read of a file returns while merge_ocr_files holds ocr_output.txt
\* open for writing: for the output itself, the part of the text written so
\* far that has left the write buffer (the first `flushed` characters)
ReadDuringMerge(dir, name, written, flushed) ==
    IF name = OutName THEN Slice(written, 0, flushed) ELSE dir[name]

\* the loop over the sorted files: merged_text after the files are read
RECURSIVE MergeLoop(_, _, _, _)
MergeLoop(dir, files, merged_text, flushed) ==
    IF files = <<>> THEN merged_text
    ELSE LET content == Strip(ReadDuringMerge(dir, Head(files), merged_text, flushed))
         IN MergeLoop(dir, Tail(files),
                      IF content # <<>> THEN merged_text \o content \o <<Ch.nl>>
                      ELSE merged_text,
                      flushed)

\* the files merge_ocr_files globs
OcrFiles(dir) == Glob(DOMAIN dir, Lit.ocr_, Lit.txt)

\* the files of a sorted list that are read before the merged artifact is
RECURSIVE Before(_, _)
Before(files, name) ==
    IF files = <<>> \/ Head(files) = name THEN <<>>
    ELSE <<Head(files)>> \o Before(Tail(files), name)

\* how much of the written text can have reached ocr_output.txt when the
\* loop reads it back: nothing when it is not in the listing, else any part
\* of what the loop has written until then
FlushChoices(dir, listing) ==
    IF OutName \notin DOMAIN dir THEN {0}
    ELSE 0..Len(MergeLoop(dir, Before(SortOcrFiles(listing), OutName), <<>>, 0))

\* merge_ocr_files for one listing order and one buffer behaviour: the
\* returned text, whether a file was written, and the directory afterwards
merge_ocr_files(dir, listing, flushed) ==
    LET ocr_files == SortOcrFiles(listing)
        merged_text == MergeLoop(dir, ocr_files, <<>>, flushed)
    IN IF ocr_files = <<>> THEN [text |-> <<>>, wrote |-> FALSE, dir |-> dir]
       ELSE [text |-> merged_text, wrote |-> TRUE,
             dir |-> WriteFile(dir, OutName, merged_text)]

\* every outcome merge_ocr_files can have on a directory: over every listing
\* order and every buffer behaviour. The sort is stable and leaves a sorted
\* list as it is, so two listings that sort to the same list give the same
\* outcome and one listing of each class is merged
Merges(dir) ==
    LET classes == {SortOcrFiles(listing) : listing \in Listings(OcrFiles(dir))}
    IN UNION {{merge_ocr_files(dir, listing, flushed) : flushed \in FlushChoices(dir, listing)} :
                listing \in classes}

\* what a text_detection call can do: raise, find no text, or return the
\* page's text as the first annotation
KindleResponses(image_name) ==
    {[kind |-> "raise", text |-> <<>>], [kind |-> "none", text |-> <<>>],
     [kind |-> "text", text |-> PageText(image_name, Ch.a) \o <<Ch.nl>>]}

\* --------------------------------------------------------- img2txt actions
\* process_images without its check for an empty batch: the loop is entered
\* with whatever was found
LocateNoRaise ==
    /\ prog = "img2txt" /\ pc = "idle"
    /\ \E listing \in Listings(SourceItems) :
         /\ pc' = "ocr" /\ queue' = SortImageFiles(listing)
         /\ calls' = <<>> /\ results' = Empty
    /\ UNCHANGED <<prog, args, fs, ret, exitCode, upload, pdf, nameVars>>

\* process_images up to its loop: glob, sort by number, raise when nothing is
\* found (main prints the error and exits with 1)
Locate ==
    /\ prog = "img2txt" /\ pc = "idle"
    /\ \E listing \in Listings(SourceItems) :
         LET image_files == SortImageFiles(listing)
         IN IF image_files = <<>>
            THEN /\ pc' = "failed" /\ exitCode' = 1
                 /\ UNCHANGED <<queue, calls, results>>
            ELSE /\ pc' = "ocr" /\ queue' = image_files
                 /\ calls' = <<>> /\ results' = Empty
                 /\ UNCHANGED exitCode
    /\ UNCHANGED <<prog, args, fs, ret, upload, pdf, nameVars>>

\* one turn of the loop: perform_ocr on the next image
PerformOcr ==
    /\ prog = "img2txt" /\ pc = "ocr" /\ queue # <<>>
    /\ \E resp \in Responses(Head(queue)) :
         /\ fs' = OcrSave(fs, Head(queue), resp)
         /\ results' = WriteFile(results, Head(queue),
                                 [raised |-> resp.kind = "raise", text |-> OcrText(resp)])
    /\ calls' = Append(calls, Head(queue))
    /\ queue' = Tail(queue)
    /\ UNCHANGED <<prog, args, pc, ret, exitCode, upload, pdf, nameVars>>

\* the end of process_images: merge_ocr_files, then main reports and returns
MergeAndExit ==
    /\ prog = "img2txt" /\ pc = "ocr" /\ queue = <<>>
    /\ \E m \in Merges(fs) : fs' = m.dir /\ ret' = m.text
    /\ pc' = "done" /\ exitCode' = 0
    /\ UNCHANGED <<prog, args, queue, calls, results, upload, pdf, nameVars>>

\* merge_ocr_files called again on the directory as the last merge left it
MergeOnly ==
    /\ prog = "img2txt" /\ pc \in {"done", "remerged"}
    /\ \E m \in Merges(fs) : fs' = m.dir /\ ret' = m.text
    /\ pc' = "remerged"
    /\ UNCHANGED <<prog, args, queue, calls, results, exitCode, upload, pdf, nameVars>>

\* ------------------------------------------------------ kindle_ocr actions
\* kindle_ocr.perform_ocr: the first annotation's text, '' when there is none
\* or the call raised
KindleOcrText(resp) == IF resp.kind = "text" THEN resp.text ELSE <<>>

\* kindle_ocr.process_images up to its loop: glob, sort the paths, raise when
\* nothing is found, open ocr_output.txt for writing
KindleLocate ==
    /\ prog = "kindle_ocr" /\ pc = "idle"
    /\ \E listing \in Listings(SourceItems) :
         LET image_files == SortPaths(listing)
         IN IF image_files = <<>>
            THEN /\ pc' = "failed" /\ exitCode' = 1
                 /\ UNCHANGED <<fs, queue, calls, results, ret>>
            ELSE /\ pc' = "ocr" /\ queue' = image_files
                 /\ calls' = <<>> /\ results' = Empty /\ ret' = <<>>
                 /\ fs' = WriteFile(fs, OutName, <<>>)
                 /\ UNCHANGED exitCode
    /\ UNCHANGED <<prog, args, upload, pdf, nameVars>>

\* one turn of the loop: perform_ocr, then append the text when there is any
KindlePerformOcr ==
    /\ prog = "kindle_ocr" /\ pc = "ocr" /\ queue # <<>>
    /\ \E resp \in KindleResponses(Head(queue)) :
         LET text == KindleOcrText(resp)
         IN /\ results' = WriteFile(results, Head(queue),
                                    [raised |-> resp.kind = "raise", text |-> text])
            /\ IF text # <<>>
               THEN /\ ret' = ret \o text \o <<Ch.nl>>
                    /\ fs' = WriteFile(fs, OutName, fs[OutName] \o text \o <<Ch.nl>>)
               ELSE UNCHANGED <<ret, fs>>
    /\ calls' = Append(calls, Head(queue))
    /\ queue' = Tail(queue)
    /\ UNCHANGED <<prog, args, pc, exitCode, upload, pdf, nameVars>>

\* MarkdownIt().render of plain text, as far as the model needs it: the text
\* wrapped into a paragraph element
Render(text) == <<60, 112, 62>> \o Strip(text) \o <<60, 47, 112, 62, Ch.nl>>

\* the identifier kindle_ocr.main derives from the recognised text
Title == generate_filename(ret, max_length)

\* main after process_images: return when no text was extracted, else derive
\* the identifier and write <title>.txt and <title>.md
KindlePublishLocal ==
    /\ prog = "kindle_ocr" /\ pc = "ocr" /\ queue = <<>>
    /\ IF Strip(ret) = <<>>
       THEN /\ pc' = "done" /\ exitCode' = 0
            /\ UNCHANGED fs
       ELSE /\ pc' = "upload"
            /\ fs' = WriteFile(WriteFile(fs, Title \o Lit.txt, ret),
                               Title \o Lit.md, Render(ret))
            /\ UNCHANGED exitCode
    /\ UNCHANGED <<prog, args, queue, calls, results, ret, upload, pdf, nameVars>>

\* main's upload step: skipped with --skip-drive; upload_to_google_drive
\* re-raises what the destination store raised, and main exits with 1
KindleUpload ==
    /\ prog = "kindle_ocr" /\ pc = "upload"
    /\ IF args.skip_drive
       THEN pc' = "pdf" /\ UNCHANGED <<upload, exitCode>>
       ELSE \E ok \in BOOLEAN :
              IF ok THEN pc' = "pdf" /\ upload' = "ok" /\ UNCHANGED exitCode
              ELSE pc' = "failed" /\ upload' = "failed" /\ exitCode' = 1
    /\ UNCHANGED <<prog, args, fs, queue, calls, results, ret, pdf, nameVars>>

\* main's PDF step: skipped with --skip-pdf; create_pdf re-raises a failure
\* of img2pdf, and main exits with 1
KindlePdf ==
    /\ prog = "kindle_ocr" /\ pc = "pdf"
    /\ IF args.skip_pdf \/ SourceItems = {}
       THEN pc' = "done" /\ exitCode' = 0 /\ UNCHANGED <<pdf, fs>>
       ELSE \E ok \in BOOLEAN :
              IF ok THEN /\ pc' = "done" /\ exitCode' = 0 /\ pdf' = "ok"
                         /\ fs' = WriteFile(fs, Title \o Lit.pdf, <<>>)
              ELSE pc' = "failed" /\ pdf' = "failed" /\ exitCode' = 1 /\ UNCHANGED fs
    /\ UNCHANGED <<prog, args, queue, calls, results, ret, upload, nameVars>>

\* ------------------------------------------------------------ environment
\* the script is started again on the same directory
Rerun ==
    /\ pc \in {"done", "remerged", "failed"}
    /\ pc' = "idle" /\ exitCode' = -1
    /\ queue' = <<>> /\ calls' = <<>> /\ results' = Empty /\ ret' = <<>>
    /\ upload' = "no" /\ pdf' = "no"
    /\ UNCHANGED <<prog, args, fs, nameVars>>

\* between two runs the user removes the screenshots from the directory
ClearSources ==
    /\ pc \in {"done", "remerged", "failed"}
    /\ SourceItems # {}
    /\ fs' = [n \in DOMAIN fs \ SourceItems |-> fs[n]]
    /\ UNCHANGED <<prog, args, pc, queue, calls, results, ret, exitCode,
                   upload, pdf, nameVars>>

Init ==
    /\ prog \in {"img2txt", "kindle_ocr"}
    /\ args \in [skip_drive : BOOLEAN, skip_pdf : BOOLEAN]
    /\ prog = "img2txt" => args = [skip_drive |-> FALSE, skip_pdf |-> FALSE]
    /\ fs \in {[n \in b |-> <<>>] : b \in Batches}
    /\ pc = "idle" /\ exitCode = -1
    /\ queue = <<>> /\ calls = <<>> /\ results = Empty /\ ret = <<>>
    /\ upload = "no" /\ pdf = "no"
    /\ site = "none" /\ gen = [kind |-> "none", text |-> <<>>] /\ ident = <<>>

Next ==
    \/ Locate \/ PerformOcr \/ MergeAndExit \/ MergeOnly
    \/ KindleLocate \/ KindlePerformOcr \/ KindlePublishLocal \/ KindleUpload \/ KindlePdf
    \/ Rerun \/ ClearSources

Spec == Init /\ [][Next]_vars

\* ------------------------------------------- identifier derivation, alone
\* the characters a generation-service answer is built from: a letter, a
\* space, the two allowed marks, a disallowed mark and a line break
NameAlphabet == {Ch.a, Ch.sp, Ch.hyphen, Ch.underscore, Ch.qmark, Ch.nl}

\* the answers enumerated: every string up to MaxNameLen, and first lines
\* longer than max_length
Answers ==
    SeqUpTo(NameAlphabet, MaxNameLen)
        \cup {Rep(c, max_length) \o <<d>> : c, d \in NameAlphabet}

\* what the generation service can do with the identifier request
GenOutcomes ==
    {[kind |-> "raise", text |-> <<>>], [kind |-> "none", text |-> <<>>]}
        \cup {[kind |-> "text", text |-> t] : t \in Answers}

\* txt2md.main derives the identifier from the synthesized document
DeriveTxt2md ==
    /\ site = "none"
    /\ \E g \in GenOutcomes :
         site' = "txt2md" /\ gen' = g /\ ident' = generate_filename_from_text(g)
    /\ UNCHANGED pipeVars

\* kindle_ocr.main derives the identifier from the recognised text
DeriveKindle ==
    /\ site = "none"
    /\ \E t \in Answers :
         /\ site' = "kindle_ocr" /\ gen' = [kind |-> "text", text |-> t]
         /\ ident' = generate_filename(t, max_length)
    /\ UNCHANGED pipeVars

InitName ==
    /\ prog = "img2txt" /\ args = [skip_drive |-> FALSE, skip_pdf |-> FALSE]
    /\ fs = Empty /\ pc = "idle" /\ exitCode = -1
    /\ queue = <<>> /\ calls = <<>> /\ results = Empty /\ ret = <<>>
    /\ upload = "no" /\ pdf = "no"
    /\ site = "none" /\ gen = [kind |-> "none", text |-> <<>>] /\ ident = <<>>

NextName == DeriveTxt2md \/ DeriveKindle

SpecName == InitName /\ [][NextName]_vars

\* ------------------------------------------------------- txt2md.main
\* The synthesis script run alone. Here args holds what main reads from the
\* command line and config.env, fs holds the OCR text file and the files of
\* the destination folder, calls the requests sent to the generation service,
\* results the answer to the reformat request, ret the markdown content.

\* what the OCR text file can be: missing, white space only, or a merged text
OcrFileChoices ==
    {Empty, [n \in {OutName} |-> <<Ch.nl>>],
     [n \in {OutName} |-> <<Digit(0), Ch.sp, Ch.a, Ch.nl>>]}

\* what the reformat request can do: raise, answer without text (None or ''),
\* answer with white space only, or answer with a document, bare or padded
SynthResponses ==
    {[kind |-> "raise", text |-> <<>>], [kind |-> "none", text |-> <<>>],
     [kind |-> "text", text |-> <<>>],
     [kind |-> "text", text |-> <<Ch.nl>>],
     [kind |-> "text", text |-> <<35, Ch.sp, Ch.a>>],
     [kind |-> "text", text |-> <<35, Ch.sp, Ch.b, Ch.nl>>]}

\* main up to the reformat request: the file must exist, an API key must be
\* known, and an OCR text that is empty once stripped ends the run quietly
SynthRead ==
    /\ prog = "txt2md" /\ pc = "idle"
    /\ IF OutName \notin DOMAIN fs \/ ~args.api_key
       THEN pc' = "failed" /\ exitCode' = 1
       ELSE IF Strip(fs[OutName]) = <<>>
            THEN pc' = "done" /\ exitCode' = 0
            ELSE pc' = "synth" /\ UNCHANGED exitCode
    /\ UNCHANGED <<prog, args, fs, queue, calls, results, ret, upload, pdf, nameVars>>

\* the reformat request: a raised call or an answer whose text is None or ''
\* ends the run with exit code 1, any other text is stripped and kept
Synthesize ==
    /\ prog = "txt2md" /\ pc = "synth"
    /\ \E response \in SynthResponses :
         /\ results' = WriteFile(results, "synthesis", response)
         /\ IF response.kind # "text" \/ response.text = <<>>
            THEN pc' = "failed" /\ exitCode' = 1 /\ UNCHANGED ret
            ELSE pc' = "name" /\ ret' = Strip(response.text) /\ UNCHANGED exitCode
    /\ calls' = Append(calls, "synthesis")
    /\ UNCHANGED <<prog, args, fs, queue, upload, pdf, nameVars>>

\* the identifier: --output-name when given, else one more request
SynthName ==
    /\ prog = "txt2md" /\ pc = "name"
    /\ IF args.output_name # <<>>
       THEN ident' = args.output_name /\ UNCHANGED <<calls, site, gen>>
       ELSE \E g \in GenOutcomes :
              /\ calls' = Append(calls, "identifier")
              /\ site' = "txt2md" /\ gen' = g
              /\ ident' = generate_filename_from_text(g)
    /\ pc' = "publish"
    /\ UNCHANGED <<prog, args, fs, queue, results, ret, exitCode, upload, pdf>>

\* the end of main: GOOGLE_DRIVE_FOLDER must be set; <title>.md is written
\* into the folder, and a failure to create or write it exits with 1
SynthPublish ==
    /\ prog = "txt2md" /\ pc = "publish"
    /\ IF ~args.drive_folder
       THEN pc' = "failed" /\ exitCode' = 1 /\ UNCHANGED fs
       ELSE \E ok \in BOOLEAN :
              IF ok THEN /\ fs' = WriteFile(fs, ident \o Lit.md, ret)
                         /\ pc' = "done" /\ exitCode' = 0
              ELSE pc' = "failed" /\ exitCode' = 1 /\ UNCHANGED fs
    /\ UNCHANGED <<prog, args, queue, calls, results, ret, upload, pdf, nameVars>>

InitSynth ==
    /\ prog = "txt2md"
    /\ args \in [output_name : {<<>>, <<Ch.a>>}, api_key : BOOLEAN, drive_folder : BOOLEAN]
    /\ fs \in OcrFileChoices
    /\ pc = "idle" /\ exitCode = -1
    /\ queue = <<>> /\ calls = <<>> /\ results = Empty /\ ret = <<>>
    /\ upload = "no" /\ pdf = "no"
    /\ site = "none" /\ gen = [kind |-> "none", text |-> <<>>] /\ ident = <<>>

NextSynth == SynthRead \/ Synthesize \/ SynthName \/ SynthPublish

SpecSynth == InitSynth /\ [][NextSynth]_vars

\* --------------------------------------- img2txt on a directory with strays
\* The recognition phase and the merge on a directory that also holds files
\* whose names the globs match without the number the pattern asks for.

\* the source files of such a directory: two numbered items and the stray one
StrayBatches ==
    {b \in SUBSET {Screenshot(<<Digit(1)>>), Screenshot(<<Digit(2)>>), StrayItem} :
        Cardinality(b) <= MaxItems}

InitStray ==
    /\ prog = "img2txt" /\ args = [skip_drive |-> FALSE, skip_pdf |-> FALSE]
    /\ fs \in {[x \in b \cup r |-> IF x = StrayRecord THEN <<Ch.n>> ELSE <<>>] :
                  b \in StrayBatches, r \in {{}, {StrayRecord}}}
    /\ pc = "idle" /\ exitCode = -1
    /\ queue = <<>> /\ calls = <<>> /\ results = Empty /\ ret = <<>>
    /\ upload = "no" /\ pdf = "no"
    /\ site = "none" /\ gen = [kind |-> "none", text |-> <<>>] /\ ident = <<>>

NextStray == Locate \/ PerformOcr \/ MergeAndExit \/ MergeOnly

SpecStray == InitStray /\ [][NextStray]_vars

\* ------------------------------------------ the merge with failing file I/O
\* merge_ocr_files where the statements inside its try block can raise: the
\* read of a per-item file, or the write to ocr_output.txt that follows
\* `merged_text += ...`. Either exception is caught by the same except
\* clause, which prints a message and goes on with the next file.

\* what can happen inside the try block for one file
IOOutcomes == {"ok", "read", "write"}

\* the loop over the sorted files: merged_text and the text that reached
\* ocr_output.txt. A failed read skips the file; a failed write leaves the
\* content in merged_text and, in the model, none of it in the file
RECURSIVE MergeLoopIO(_, _, _, _, _, _)
MergeLoopIO(dir, files, io, merged_text, written, flushed) ==
    IF files = <<>> THEN [text |-> merged_text, out |-> written]
    ELSE LET content == Strip(ReadDuringMerge(dir, Head(files), written, flushed))
         IN IF io[Head(files)] = "read" \/ content = <<>>
            THEN MergeLoopIO(dir, Tail(files), io, merged_text, written, flushed)
            ELSE MergeLoopIO(dir, Tail(files), io,
                             merged_text \o content \o <<Ch.nl>>,
                             IF io[Head(files)] = "write" THEN written
                             ELSE written \o content \o <<Ch.nl>>,
                             flushed)

\* merge_ocr_files for one listing, one outcome per file and one outcome of
\* closing ocr_output.txt: a close that raises leaves the function by the
\* exception, without a returned text
merge_ocr_files_io(dir, listing, io, close_ok) ==
    LET ocr_files == SortOcrFiles(listing)
        r == MergeLoopIO(dir, ocr_files, io, <<>>, <<>>, 0)
    IN IF ocr_files = <<>>
       THEN [text |-> <<>>, wrote |-> FALSE, raised |-> FALSE, dir |-> dir]
       ELSE [text |-> r.text, wrote |-> TRUE, raised |-> ~close_ok,
             dir |-> WriteFile(dir, OutName, r.out)]

\* the end of process_images with failing file I/O: the merge, then main
\* returns, or exits with 1 when the merge raised
MergeIOAndExit ==
    /\ prog = "img2txt" /\ pc = "ocr" /\ queue = <<>>
    /\ \E listing \in {SortOcrFiles(l) : l \in Listings(OcrFiles(fs))},
          io \in [OcrFiles(fs) -> IOOutcomes], close_ok \in BOOLEAN :
         LET m == merge_ocr_files_io(fs, listing, io, close_ok)
         IN /\ fs' = m.dir
            /\ IF m.raised THEN pc' = "failed" /\ exitCode' = 1 /\ UNCHANGED ret
               ELSE pc' = "done" /\ exitCode' = 0 /\ ret' = m.text
    /\ UNCHANGED <<prog, args, queue, calls, results, upload, pdf, nameVars>>

InitMerge == Init /\ prog = "img2txt"

NextMerge == Locate \/ PerformOcr \/ MergeIOAndExit

SpecMerge == InitMerge /\ [][NextMerge]_vars

\* ------------------------------------------------------------ properties
\* the integer written in a name between a prefix and an extension
IndexOf(name, pre, ext) == ParseInt(Middle(name, pre, ext))

\* a list of names is in ascending order of the integers written in them
Ascending(l, pre, ext) ==
    \A i, j \in 1..Len(l) : i < j => IndexOf(l[i], pre, ext) <= IndexOf(l[j], pre, ext)

\* the texts of a list of names, each non-empty one followed by a newline
RECURSIVE Concat(_, _)
Concat(text, l) ==
    IF l = <<>> THEN <<>>
    ELSE (IF text[Head(l)] # <<>> THEN text[Head(l)] \o <<Ch.nl>> ELSE <<>>)
             \o Concat(text, Tail(l))

\* the concatenations of the texts of a set of names in ascending index order
\* (names with equal indices in either order)
AscendingConcats(text, names, pre, ext) ==
    {Concat(text, l) : l \in {m \in Listings(names) : Ascending(m, pre, ext)}}

\* the per-item result files in the directory: ocr_<digits>.txt
PerItemFiles ==
    {n \in OcrFiles(fs) :
        Middle(n, Lit.ocr_, Lit.txt) # <<>>
        /\ \A i \in 1..Len(Middle(n, Lit.ocr_, Lit.txt)) : IsDigit(Middle(n, Lit.ocr_, Lit.txt)[i])}

\* the merged artifact's text, empty when the file does not exist
OutText == IF OutName \in DOMAIN fs THEN fs[OutName] ELSE <<>>

\* the lines of the merged artifact
OutLines == Split(OutText, Ch.nl)

\* the recognition phase of img2txt has processed its last item
Phase1Done == prog = "img2txt" /\ pc = "ocr" /\ queue = <<>>

\* img2txt has just completed a run over the source items in the directory
RunDone == prog = "img2txt" /\ pc = "done" /\ DOMAIN results = SourceItems

\* C1: when a run of img2txt is done, ocr_output.txt is the concatenation of
\* the non-empty per-item texts (the contents of the ocr_<N>.txt files, a
\* newline after each) in ascending order of N
C1_MergedInIndexOrder ==
    (prog = "img2txt" /\ pc = "done" /\ PerItemFiles # {}) =>
        /\ OutName \in DOMAIN fs
        /\ fs[OutName] \in AscendingConcats(fs, PerItemFiles, Lit.ocr_, Lit.txt)

\* C2: when phase 1 has finished, every source item screenshot_<N>.png has
\* its per-item result file ocr_<N>.txt
C2_OneResultFilePerItem ==
    Phase1Done => \A n \in SourceItems : OcrFilename(n) \in DOMAIN fs

\* C3: a recognition error becomes an empty result with an empty placeholder
\* file; the run fails only before the first recognition call, never after
\* one; while the loop runs no located item is dropped; and when the run is
\* done every item was processed and every non-empty result is in the merged
\* artifact, in index order
C3_FaultIsolation ==
    prog = "img2txt" =>
        /\ \A n \in DOMAIN results :
              results[n].raised =>
                  /\ results[n].text = <<>>
                  /\ OcrFilename(n) \in DOMAIN fs
                  /\ fs[OcrFilename(n)] = <<>>
        /\ pc = "failed" => calls = <<>> /\ results = Empty
        /\ pc = "ocr" =>
              /\ DOMAIN results = Range(calls)
              /\ Range(calls) \cup Range(queue) = SourceItems
        /\ RunDone =>
              /\ Range(calls) = SourceItems /\ queue = <<>>
              /\ \A n \in SourceItems :
                    results[n].text # <<>> =>
                        \E i \in 1..Len(OutLines) : OutLines[i] = results[n].text
              /\ \A n1, n2 \in SourceItems :
                    (/\ results[n1].text # <<>> /\ results[n2].text # <<>>
                     /\ IndexOf(n1, Lit.screenshot_, Lit.png)
                            < IndexOf(n2, Lit.screenshot_, Lit.png)) =>
                        \E i, j \in 1..Len(OutLines) :
                            i < j /\ OutLines[i] = results[n1].text
                                  /\ OutLines[j] = results[n2].text

\* a run is done in which one item's recognition raised and a later item's
\* text was recognised and merged
C3_Witness ==
    /\ RunDone
    /\ \E n1, n2 \in SourceItems :
          /\ results[n1].raised /\ results[n2].text # <<>>
          /\ IndexOf(n1, Lit.screenshot_, Lit.png) < IndexOf(n2, Lit.screenshot_, Lit.png)
          /\ fs[OcrFilename(n1)] = <<>>
          /\ \E i \in 1..Len(OutLines) : OutLines[i] = results[n2].text

\* the per-item result files carry pairwise different indices, so that the
\* order of a listing plays no part in the order of a merge
DistinctIndices ==
    \A n1, n2 \in PerItemFiles :
        n1 # n2 => IndexOf(n1, Lit.ocr_, Lit.txt) # IndexOf(n2, Lit.ocr_, Lit.txt)

\* C4: merge_ocr_files run again on the directory as the last merge left it
\* writes the same ocr_output.txt and returns the same text
C4_MergeIdempotent ==
    [][(pc' = "remerged" /\ DistinctIndices) => (FileOut' = FileOut /\ ret' = ret)]_vars

\* C5: when a run over the source items is done, every ocr_<N>.txt holds
\* that run's result for item N and ocr_output.txt is the concatenation of
\* that run's non-empty results in ascending index order, whatever files an
\* earlier run left
C5_RerunOverwrites ==
    RunDone =>
        /\ \A n \in SourceItems :
              OcrFilename(n) \in DOMAIN fs => fs[OcrFilename(n)] = results[n].text
        /\ OutText \in AscendingConcats([n \in SourceItems |-> results[n].text],
                                        SourceItems, Lit.screenshot_, Lit.png)

\* C6: a run started on a directory without source items ends at once with
\* exit code 1, without a recognition call and without creating or changing
\* a file
C6_NoItemsIsFatal ==
    [][(pc = "idle" /\ SourceItems = {}) =>
          (pc' = "failed" /\ exitCode' = 1 /\ fs' = fs /\ calls' = <<>>)]_vars

\* a run has failed on a directory that holds no source item but still holds
\* the results of an earlier run
C6_Witness ==
    /\ pc = "failed" /\ exitCode = 1 /\ SourceItems = {} /\ calls = <<>>
    /\ OcrFiles(fs) # {}

\* C7: in both scripts the recognition calls are issued in ascending order
\* of the integer parsed from the file name
C7_CallsInIndexOrder == Ascending(calls, Lit.screenshot_, Lit.png)

\* the allow-list: alphanumeric, space, hyphen, underscore
Allowed(c) == IsAlnum(c) \/ c \in {Ch.sp, Ch.hyphen, Ch.underscore}

\* C8: whatever the generation service does, generate_filename_from_text
\* returns a non-empty identifier made of allow-listed characters only
C8_IdentifierTotal ==
    site = "txt2md" => (ident # <<>> /\ \A i \in 1..Len(ident) : Allowed(ident[i]))

\* the service answered with white space only, or with disallowed characters
\* only, and an identifier was derived
C8_Witness ==
    /\ site = "txt2md" /\ gen.kind = "text" /\ gen.text # <<>>
    /\ \A i \in 1..Len(gen.text) : ~Allowed(gen.text[i])
    /\ ident # <<>>

\* C9: at both sites, a text that is empty or made only of characters outside
\* the allow-list gives the default identifier OCR_Output
C9_DefaultWhenAllSubstituted ==
    (site # "none" /\ gen.kind = "text" /\ \A i \in 1..Len(gen.text) : ~Allowed(gen.text[i]))
        => ident = Lit.OCR_Output

\* C10: when the upload has failed the local <title>.txt and <title>.md
\* remain, the PDF build is still attempted unless skipped, and the process
\* does not exit with an error
C10_UploadFailureIsOptional ==
    (prog = "kindle_ocr" /\ upload = "failed") =>
        /\ Title \o Lit.txt \in DOMAIN fs /\ Title \o Lit.md \in DOMAIN fs
        /\ exitCode # 1
        /\ (exitCode = 0 /\ ~args.skip_pdf) => pdf # "no"

\* the reformat request gave nothing to publish: the call raised, or its text
\* is missing or empty once stripped
NoUsableContent(response) == response.kind # "text" \/ Strip(response.text) = <<>>

\* the final documents in the destination folder
MdFiles == Glob(DOMAIN fs, <<>>, Lit.md)

\* C11: once the reformat request of txt2md.main has returned no usable
\* content, the run is aborted with exit code 1, no identifier request is
\* issued and no <title>.md exists
C11_SynthesisHardStop ==
    (prog = "txt2md" /\ "synthesis" \in DOMAIN results
        /\ NoUsableContent(results["synthesis"])) =>
        /\ pc # "done" /\ exitCode \in {-1, 1}
        /\ pc = "failed"
        /\ \A i \in 1..Len(calls) : calls[i] # "identifier"
        /\ MdFiles = {}

\* a name is prefix + decimal digits + extension
IsNumbered(name, pre, ext) ==
    /\ Len(name) >= Len(pre) + Len(ext) /\ StartsWith(name, pre) /\ EndsWith(name, ext)
    /\ Middle(name, pre, ext) # <<>>
    /\ \A i \in 1..Len(Middle(name, pre, ext)) : IsDigit(Middle(name, pre, ext)[i])

\* C12: only screenshot_<digits>.png files are queued for and handed to
\* recognition; a merge returns the texts of the ocr_<digits>.txt files only
\* (so it has read no other file, ocr_output.txt included); and a file with
\* another name does not make a run fail that has a numbered source item
C12_OnlyPatternFilesTakePart ==
    [][prog = "img2txt" =>
          /\ \A i \in 1..Len(queue') : IsNumbered(queue'[i], Lit.screenshot_, Lit.png)
          /\ \A i \in 1..Len(calls') : IsNumbered(calls'[i], Lit.screenshot_, Lit.png)
          /\ (pc \in {"ocr", "done", "remerged"} /\ pc' \in {"done", "remerged"}) =>
                ret' \in AscendingConcats([n \in PerItemFiles |-> Strip(fs[n])],
                                          PerItemFiles, Lit.ocr_, Lit.txt)
          /\ (pc = "idle" /\ \E n \in SourceItems : IsNumbered(n, Lit.screenshot_, Lit.png))
                => pc' # "failed"]_vars

\* C13: when merge_ocr_files has found a per-item file and returned, the text
\* it returned is the content of ocr_output.txt, also when files were skipped
\* because an exception was caught in the loop
C13_ReturnedEqualsWritten ==
    (prog = "img2txt" /\ pc = "done" /\ PerItemFiles # {}) =>
        (OutName \in DOMAIN fs /\ ret = fs[OutName])

====
